---- MODULE Spec2Model ----
(***************************************************************************)
(* The interactive todo list of clitodo: the top-level view router         *)
(* (MainView), the list screen (ListScreen) with its filter, pager and     *)
(* cursor, the add-task screen and the item storage.                       *)
(*                                                                         *)
(* One step of the model is one message processed by the Bubble Tea event  *)
(* loop: MainView.Update(msg) followed by MainView.View().  Commands       *)
(* returned by Update run in their own goroutines; they are the entries of *)
(* inflight, and their messages are delivered in any order.                *)
(***************************************************************************)
EXTENDS Integers, Sequences, FiniteSets, TLC

VARIABLES
    screen,       \* the ListScreen struct (the fields the handlers read or write)
    persisted,    \* the content of storage.json
    currentView,  \* MainView.currentView: "list" (View1Const) or "add" (View2Const)
    inflight,     \* commands running and messages not yet delivered
    status,       \* "running", "quit" (tea.QuitMsg processed) or "panicked"
    timers,       \* the time.Timer made for each status message
    waiters,      \* the goroutines of the commands NewStatusMessage returned
    startup,      \* history: how GetItems found storage.json at startup
    ev            \* history: the kind of the message processed last

vars == <<screen, persisted, currentView, inflight, status, timers, waiters,
          startup, ev>>

----------------------------------------------------------------------------
\* Bounds of the model.

\* the master collection never grows beyond MaxItems (guards the add flow)
MaxItems == 2
\* the filter text never grows beyond MaxQuery runes (guards typing)
MaxQuery == 1
\* at most MaxInflight commands/messages are pending at once
MaxInflight == 1

\* a turn that would take the page number below -MaxUnderflow is not taken
MaxUnderflow == 1

\* a host of the component shows at most MaxMessages status messages
MaxMessages == 3

\* titles of stored and added items (one rune each)
Titles == {"A", "B"}
\* runes typed into the filter input
Alphabet == {"a"}
\* terminal heights reported by tea.WindowSizeMsg
Heights == {2, 13}

----------------------------------------------------------------------------
\* Go arithmetic and small helpers.

max(a, b) == IF a > b THEN a ELSE b

min(a, b) == IF a < b THEN a ELSE b

\* Go's integer division truncates toward zero.
GoDiv(a, b) == IF a >= 0 THEN a \div b ELSE -((-a) \div b)

\* Go's remainder has the sign of the dividend.
GoMod(a, b) == a - b * GoDiv(a, b)

\* s[lo..hi) with 0-based bounds, as a Go slice expression on a sequence.
Slice(s, lo, hi) == [k \in 1..(hi - lo) |-> s[lo + k]]

Item(t, c) == [title |-> t, completed |-> c]

\* domain.NewItem
NewItem(title) == Item(title, FALSE)

\* Item.FilterValue
FilterValue(i) == i.title

\* the filteredItem struct
FilteredItem(idx, it, ms) == [index |-> idx, item |-> it, matches |-> ms]

\* a nil filteredItems slice, and a non-nil one
NilFiltered == [isNil |-> TRUE, elems |-> <<>>]

SomeFiltered(s) == [isNil |-> FALSE, elems |-> s]

\* filteredItems.items
FilteredAsItems(f) == [k \in DOMAIN f.elems |-> f.elems[k].item]

----------------------------------------------------------------------------
\* The key map (cmd.KeyMap) and the messages.

\* The bindings whose enabled flag updateKeybindings maintains.
Bindings == {"CursorUp", "CursorDown", "NextPage", "PrevPage", "GoToStart",
             "GoToEnd", "Filter", "ClearFilter", "CancelWhileFiltering",
             "AcceptWhileFiltering", "Quit"}

\* cmd.DefaultKeyMap: the keys of each binding.  ClearFilter, Quit and
\* CancelWhileFiltering share escape; MoveItemUp and MoveItemDown are never
\* disabled.
KeysOf(b) ==
    CASE b = "CursorUp" -> {"up"}
      [] b = "CursorDown" -> {"down"}
      [] b = "MoveItemUp" -> {"shift+up"}
      [] b = "MoveItemDown" -> {"shift+down"}
      [] b = "PrevPage" -> {"pgup"}
      [] b = "NextPage" -> {"pgdown"}
      [] b = "GoToStart" -> {"home"}
      [] b = "GoToEnd" -> {"end"}
      [] b = "Filter" -> {"/"}
      [] b = "ClearFilter" -> {"esc"}
      [] b = "CancelWhileFiltering" -> {"esc"}
      [] b = "AcceptWhileFiltering" -> {"enter", "tab"}
      [] b = "Quit" -> {"esc"}
      [] OTHER -> {}

\* the runes a key press can put into a text input
Runes == Alphabet \cup {"/"}

\* the keys the user presses
Keys == {"up", "down", "shift+up", "shift+down", "pgup", "pgdown", "home",
         "end", "esc", "enter", "tab", "backspace", "ctrl+d", "ctrl+a", "q"}
        \cup Runes

\* key.Matches(msg, binding): the binding is enabled and holds the key
Matches(m, k, b) ==
    /\ k \in KeysOf(b)
    /\ IF b \in Bindings THEN m.enabled[b] ELSE TRUE

KeyMsg(k) == [type |-> "KeyMsg", key |-> k]

WindowSizeMsg(h) == [type |-> "WindowSizeMsg", height |-> h]

FilterMatchesMsg(fs) == [type |-> "FilterMatchesMsg", matches |-> fs]

TaskAdded(it) == [type |-> "TaskAdded", item |-> it]

AddTaskTrigger == [type |-> "AddTaskTrigger"]

QuitMsg == [type |-> "QuitMsg"]

\* statusMessageTimeoutMsg; the message itself is empty, timer records the
\* timer whose expiry the sending goroutine received
statusMessageTimeoutMsg(t) == [type |-> "statusMessageTimeoutMsg", timer |-> t]

----------------------------------------------------------------------------
\* The paginator (bubbles/paginator) as the list screen uses it.

\* paginator.Model.GetSliceBounds
GetSliceBounds(m, length) ==
    [start |-> m.page * m.perPage,
     end |-> min(m.page * m.perPage + m.perPage, length)]

\* paginator.Model.ItemsOnPage: end - start of GetSliceBounds
ItemsOnPage(m, totalItems) ==
    IF totalItems < 1 THEN 0
    ELSE min(m.page * m.perPage + m.perPage, totalItems) - m.page * m.perPage

\* SetTotalPages rounding the number of pages down
SetTotalPagesFloor(m, n) ==
    IF n < 1 THEN m ELSE [m EXCEPT !.totalPages = GoDiv(n, m.perPage)]

\* paginator.Model.SetTotalPages
SetTotalPages(m, n) ==
    IF n < 1 THEN m
    ELSE [m EXCEPT !.totalPages =
            GoDiv(n, m.perPage) + (IF GoMod(n, m.perPage) > 0 THEN 1 ELSE 0)]

\* paginator.Model.OnLastPage
OnLastPage(m) == m.page = m.totalPages - 1

\* paginator.Model.PrevPage
PrevPage(m) == IF m.page > 0 THEN [m EXCEPT !.page = m.page - 1] ELSE m

\* paginator.Model.NextPage
NextPage(m) == IF ~OnLastPage(m) THEN [m EXCEPT !.page = m.page + 1] ELSE m

----------------------------------------------------------------------------
\* ListScreen: accessors.

\* ListScreen.VisibleItems
VisibleItems(m) ==
    IF m.filterState # "Unfiltered" THEN FilteredAsItems(m.filteredItems)
    ELSE m.items

\* ListScreen.Index
Index(m) == m.page * m.perPage + m.cursor

\* ListScreen.SelectedItem: 0 stands for the nil pointer, otherwise the
\* 1-based position in VisibleItems the pointer refers to
SelectedItem(m) ==
    IF Index(m) < 0 \/ Len(VisibleItems(m)) = 0 \/ Len(VisibleItems(m)) <= Index(m)
    THEN 0
    ELSE Index(m) + 1

\* ListScreen.GlobalIndex; -1000 stands for the panic of indexing
\* filteredItems with a negative index
GlobalIndex(m) ==
    IF m.filteredItems.isNil \/ Index(m) >= Len(m.filteredItems.elems)
    THEN Index(m)
    ELSE IF Index(m) < 0 THEN -1000
    ELSE m.filteredItems.elems[Index(m) + 1].index

\* ListScreen.Cursor
Cursor(m) == m.cursor

\* ListScreen.Select
Select(m, index) ==
    [m EXCEPT !.page = GoDiv(index, m.perPage),
              !.cursor = GoMod(index, m.perPage)]

----------------------------------------------------------------------------
\* ListScreen: cursor movement and reordering.

\* ListScreen.CursorUp
CursorUp(m) ==
    LET c == m.cursor - 1
        atStart == c < 0 /\ m.page = 0
    IN  IF atStart /\ ~m.InfiniteScrolling THEN [m EXCEPT !.cursor = 0]
        ELSE IF ~atStart /\ c >= 0 THEN [m EXCEPT !.cursor = c]
        ELSE LET p == IF atStart THEN [m EXCEPT !.page = m.totalPages - 1]
                      ELSE PrevPage(m)
             IN  [p EXCEPT !.cursor = ItemsOnPage(p, Len(VisibleItems(p))) - 1]

\* ListScreen.CursorDown
CursorDown(m) ==
    LET itemsOnPage == ItemsOnPage(m, Len(VisibleItems(m)))
        c == m.cursor + 1
    IN  IF c < itemsOnPage THEN [m EXCEPT !.cursor = c]
        ELSE IF ~OnLastPage(m) THEN [NextPage(m) EXCEPT !.cursor = 0]
        ELSE IF c > itemsOnPage THEN [m EXCEPT !.cursor = 0]
        ELSE IF m.InfiniteScrolling THEN [m EXCEPT !.page = 0, !.cursor = 0]
        ELSE [m EXCEPT !.cursor = itemsOnPage - 1]

\* items with the elements at 0-based positions i and j exchanged
Swap(items, i, j) ==
    [k \in DOMAIN items |->
        IF k = i + 1 THEN items[j + 1]
        ELSE IF k = j + 1 THEN items[i + 1]
        ELSE items[k]]

\* ListScreen.MoveItemUp
MoveItemUp(m) ==
    IF m.cursor <= 0 \/ m.cursor >= Len(m.items) THEN m
    ELSE [m EXCEPT !.items = Swap(m.items, m.cursor, m.cursor - 1)]

\* MoveItemDown that copies the item at the cursor over its successor
\* instead of exchanging the two
MoveItemDownOverwrite(m) ==
    IF m.cursor < 0 \/ m.cursor >= Len(m.items) - 1 THEN m
    ELSE [m EXCEPT !.items[m.cursor + 2] = m.items[m.cursor + 1]]

\* ListScreen.MoveItemDown
MoveItemDown(m) ==
    IF m.cursor < 0 \/ m.cursor >= Len(m.items) - 1 THEN m
    ELSE [m EXCEPT !.items = Swap(m.items, m.cursor, m.cursor + 1)]

----------------------------------------------------------------------------
\* ListScreen: pagination and key bindings.

\* DefaultDelegate.Height
DelegateHeight == 1

\* NewDefaultDelegate: defaultSpacing
DelegateSpacing == 1

\* docStyle.GetFrameSize: the vertical frame of Margin(1, 2)
DocFrameHeight == 2

\* The rows the title bar, the status bar, the pagination line and the short
\* help take under cmd.DefaultStyles (all four are shown).
ChromeHeight == 2 + 2 + 1 + 2

\* updatePagination: the total pages for the visible items
SetPages(m) ==
    IF Len(VisibleItems(m)) < 1 THEN SetTotalPages(m, 1)
    ELSE SetTotalPages(m, Len(VisibleItems(m)))

\* "Restore index" taking the cursor to the top of the page
RestoreIndexTop(m, index) ==
    LET page == GoDiv(index, m.perPage) IN
    [m EXCEPT !.page = IF page >= m.totalPages - 1
                       THEN max(0, m.totalPages - 1) ELSE page,
              !.cursor = 0]

\* updatePagination: "Restore index", then "Make sure the page stays in
\* bounds"
RestoreIndex(m, index) ==
    LET page == GoDiv(index, m.perPage) IN
    [m EXCEPT !.page = IF page >= m.totalPages - 1
                       THEN max(0, m.totalPages - 1) ELSE page,
              !.cursor = GoMod(index, m.perPage)]

\* updatePagination: the page size for the height left to the items and a
\* delegate of the given height and spacing
PerPageFor(availHeight, height, spacing) ==
    max(1, GoDiv(availHeight, height + spacing))

\* ListScreen.updatePagination
updatePagination(m) ==
    RestoreIndex(
        SetPages([m EXCEPT !.perPage =
                    PerPageFor(m.height - ChromeHeight,
                               DelegateHeight, DelegateSpacing)]),
        Index(m))

\* NewListScreen: filteringEnabled
filteringEnabled == TRUE

\* NewListScreen leaves disableQuitKeybindings at its zero value
disableQuitKeybindings == FALSE

\* ListScreen.updateKeybindings
updateKeybindings(m) ==
    IF m.filterState = "Filtering" THEN
        [m EXCEPT !.enabled =
            [b \in Bindings |->
                CASE b = "CancelWhileFiltering" -> TRUE
                  [] b = "AcceptWhileFiltering" -> m.value # <<>>
                  [] OTHER -> FALSE]]
    ELSE
        LET hasItems == Len(m.items) # 0
            hasPages == m.totalPages > 1
        IN  [m EXCEPT !.enabled =
                [b \in Bindings |->
                    CASE b \in {"CursorUp", "CursorDown", "GoToStart", "GoToEnd"}
                            -> hasItems
                      [] b \in {"NextPage", "PrevPage"} -> hasPages
                      [] b = "Filter" -> filteringEnabled /\ hasItems
                      [] b = "ClearFilter" -> m.filterState = "FilterApplied"
                      [] b = "Quit" -> ~disableQuitKeybindings
                      [] OTHER -> FALSE]]

\* resetFiltering without the change of the filter state
resetFilteringKeepsState(m) ==
    IF m.filterState = "Unfiltered" THEN m
    ELSE updateKeybindings(updatePagination(
            [m EXCEPT !.value = <<>>, !.filteredItems = NilFiltered]))

\* resetFiltering without the reset of the filter input
resetFilteringKeepsText(m) ==
    IF m.filterState = "Unfiltered" THEN m
    ELSE updateKeybindings(updatePagination(
            [m EXCEPT !.filterState = "Unfiltered",
                      !.filteredItems = NilFiltered]))

\* ListScreen.resetFiltering
resetFiltering(m) ==
    IF m.filterState = "Unfiltered" THEN m
    ELSE updateKeybindings(updatePagination(
            [m EXCEPT !.filterState = "Unfiltered",
                      !.value = <<>>,
                      !.filteredItems = NilFiltered]))

\* ListScreen.itemsAsFilterItems over a captured master slice: the index
\* and matches fields keep their zero values
itemsAsFilterItems(items) ==
    [k \in DOMAIN items |-> FilteredItem(0, items[k], <<>>)]

----------------------------------------------------------------------------
\* The filter engine.

\* sahilm/fuzzy folds case when it compares a rune of the term with a rune
\* of the target
Fold(r) == CASE r = "A" -> "a" [] r = "B" -> "b" [] OTHER -> r

\* Whether fuzzy.Find matches term against a one-rune target: every rune of
\* the term must be found, in order, in the target.
FuzzyMatch(term, target) == Len(term) = 1 /\ Fold(term[1]) = Fold(target)

RECURSIVE RanksFrom(_, _, _)
\* the ranks of targets[k..], in target order
RanksFrom(term, targets, k) ==
    IF k > Len(targets) THEN <<>>
    ELSE (IF FuzzyMatch(term, targets[k])
          THEN <<[Index |-> k - 1, MatchedIndexes |-> <<0>>]>>
          ELSE <<>>) \o RanksFrom(term, targets, k + 1)

\* DefaultFilter: fuzzy.Find and sort.Stable.  Every match of a one-rune
\* target has the same score, so the ranks stay in target order.
DefaultFilter(term, targets) == RanksFrom(term, targets, 1)

\* filterItems(m): the command, holding its copy of the list screen.  The
\* copy shares the master slice's backing array while live is TRUE; view is
\* what the command reads through its slice header (n = Len(view) items).
filterItems(m) ==
    [type |-> "filterItems", value |-> m.value, filterState |-> m.filterState,
     view |-> m.items, live |-> TRUE]

\* The body of the command filterItems returns: the message it produces.
RunFilter(cmd) ==
    IF cmd.value = <<>> \/ cmd.filterState = "Unfiltered"
    THEN FilterMatchesMsg(itemsAsFilterItems(cmd.view))
    ELSE LET items == cmd.view
             targets == [k \in DOMAIN items |-> FilterValue(items[k])]
             ranks == DefaultFilter(cmd.value, targets)
         IN  FilterMatchesMsg(
                [k \in DOMAIN ranks |->
                    FilteredItem(ranks[k].Index, items[ranks[k].Index + 1],
                                 ranks[k].MatchedIndexes)])

----------------------------------------------------------------------------
\* ListScreen: mutation of the master collection.

\* A panic unwinds the handler: every later step of it is skipped.
Then(m, Op(_)) == IF m.panicked THEN m ELSE Op(m)

Panic(m) == [m EXCEPT !.panicked = TRUE]

\* insertItemIntoSlice.  items[:index] and items[index:] panic for an index
\* outside 0..len(items).  append writes into the backing array when it has
\* room (inPlace) and moves the slice to a new array otherwise; which of the
\* two happens is the runtime's growth policy.
insertItemIntoSlice(m, item, index, inPlace) ==
    IF Len(m.items) # 0 /\ (index < 0 \/ index > Len(m.items)) THEN Panic(m)
    ELSE LET at == IF Len(m.items) = 0 THEN 0 ELSE index IN
         [m EXCEPT !.items = Slice(m.items, 0, at) \o <<item>>
                             \o Slice(m.items, at, Len(m.items)),
                   !.realloc = ~inPlace]

\* removeItemFromSlice.  copy(i[index:], ...) panics for a negative index.
removeItemFromSlice(m, index) ==
    IF index >= Len(m.items) THEN m
    ELSE IF index < 0 THEN Panic(m)
    ELSE [m EXCEPT !.items = Slice(m.items, 0, index)
                             \o Slice(m.items, index + 1, Len(m.items))]

\* the tail of InsertItem: the filter command it returns (ret), then
\* updatePagination and updateKeybindings
AfterInsert(m) ==
    updateKeybindings(updatePagination(
        [m EXCEPT !.ret = IF m.filterState # "Unfiltered"
                          THEN <<filterItems(m)>> ELSE <<>>]))

\* ListScreen.InsertItem
InsertItem(m, index, item, inPlace) ==
    Then(insertItemIntoSlice(m, item, index, inPlace), AfterInsert)

\* ListScreen.RemoveItem
RemoveItem(m, index) == Then(removeItemFromSlice(m, index), updatePagination)

\* FileItemStorage.StoreItemsState, when the file can be written; every
\* caller drops the error it returns
StoreItemsState(m) == [m EXCEPT !.persisted = m.items]

----------------------------------------------------------------------------
\* The filter text input (bubbles/textinput) as handleFiltering uses it.

\* textinput.Model.Update for a key press, with the text cursor at the end of
\* the text, where typing and CursorEnd put it (the keys that move the text
\* cursor are not pressed while the input is open): a rune is appended,
\* "backspace" deletes the last rune, and "ctrl+d", which deletes the rune
\* under the cursor, finds none.
InputUpdate(m, msg) ==
    IF msg.type # "KeyMsg" THEN m
    ELSE CASE msg.key \in Runes -> [m EXCEPT !.value = @ \o <<msg.key>>]
           [] msg.key = "backspace" /\ m.value # <<>> ->
                [m EXCEPT !.value = Slice(@, 0, Len(@) - 1)]
           [] OTHER -> m

----------------------------------------------------------------------------
\* ListScreen: the status message and its timer.

\* Status messages and their timers are numbered 1..MaxMessages in the
\* order NewStatusMessage makes them; 0 stands for the empty message and for
\* the nil timer.
Messages == 1..MaxMessages

\* time.Timer.Stop: a timer that has not fired will not fire.  One that has
\* fired keeps the value in its channel or not, by the version of the
\* runtime: from "firedStopped" the value may be received or never be.
Stop(ts, t) ==
    IF t = 0 THEN ts
    ELSE [ts EXCEPT ![t] = CASE @ = "armed" -> "stopped"
                             [] @ = "fired" -> "firedStopped"
                             [] OTHER -> @]

\* ListScreen.NewStatusMessage for message s; the command it returns is the
\* goroutine s of waiters
NewStatusMessage(m, s) ==
    [m EXCEPT !.statusMessage = s,
              !.timers = [Stop(m.timers, m.statusMessageTimer) EXCEPT ![s] = "armed"],
              !.statusMessageTimer = s]

\* ListScreen.hideStatusMessage
hideStatusMessage(m) ==
    [m EXCEPT !.statusMessage = 0,
              !.timers = Stop(m.timers, m.statusMessageTimer)]

----------------------------------------------------------------------------
\* ListScreen: the update loop.

\* the binding of handleBrowsing's switch that key k selects (the first
\* that matches), "" when none does
BrowsingAction(m, k) ==
    LET order == <<"ClearFilter", "Quit", "CursorUp", "CursorDown",
                   "MoveItemUp", "MoveItemDown", "PrevPage", "NextPage",
                   "GoToStart", "GoToEnd", "Filter">>
        hits == {i \in DOMAIN order : Matches(m, k, order[i])}
    IN  IF hits = {} THEN ""
        ELSE order[CHOOSE i \in hits : \A j \in hits : i <= j]

\* the cursor clamp that ends handleBrowsing
ClampCursor(m) ==
    LET itemsOnPage == ItemsOnPage(m, Len(VisibleItems(m))) IN
    IF m.cursor > itemsOnPage - 1
    THEN [m EXCEPT !.cursor = max(0, itemsOnPage - 1)]
    ELSE m

\* the Filter case without the reset of the page and the cursor
StartFilteringKeepsCursor(m) ==
    updateKeybindings(
        [hideStatusMessage(m) EXCEPT !.filteredItems =
                    IF m.value = <<>>
                    THEN SomeFiltered(itemsAsFilterItems(m.items)) ELSE @,
                  !.filterState = "Filtering"])

\* the Filter case with the wrong filter state assigned
StartFilteringApplied(m) ==
    updateKeybindings(
        [hideStatusMessage(m) EXCEPT !.filteredItems =
                    IF m.value = <<>>
                    THEN SomeFiltered(itemsAsFilterItems(m.items)) ELSE @,
                  !.page = 0, !.cursor = 0,
                  !.filterState = "FilterApplied"])

\* the Filter case of handleBrowsing
StartFiltering(m) ==
    updateKeybindings(
        [hideStatusMessage(m) EXCEPT !.filteredItems =
                    IF m.value = <<>>
                    THEN SomeFiltered(itemsAsFilterItems(m.items)) ELSE @,
                  !.page = 0, !.cursor = 0,
                  !.filterState = "Filtering"])

\* the cursor clamp, which the Quit and Filter cases return before
ClampUnless(m, returned) == IF returned THEN m ELSE ClampCursor(m)

\* the switch of handleBrowsing on the binding the key selects
BrowsingCase(m, act) ==
    ClampUnless(
        CASE act = "ClearFilter" -> resetFiltering(m)
          [] act = "Quit" -> [m EXCEPT !.out = @ \o <<QuitMsg>>]
          [] act = "CursorUp" -> CursorUp(m)
          [] act = "CursorDown" -> CursorDown(m)
          [] act = "MoveItemUp" -> CursorUp(MoveItemUp(m))
          [] act = "MoveItemDown" -> CursorDown(MoveItemDown(m))
          [] act = "PrevPage" -> PrevPage(m)
          [] act = "NextPage" -> NextPage(m)
          [] act = "GoToStart" -> [m EXCEPT !.page = 0, !.cursor = 0]
          [] act = "GoToEnd" ->
                [m EXCEPT !.page = m.totalPages - 1,
                          !.cursor = ItemsOnPage([m EXCEPT !.page = m.totalPages - 1],
                                                 Len(VisibleItems(m))) - 1]
          [] act = "Filter" -> StartFiltering(m)
          [] OTHER -> m,
        act \in {"Quit", "Filter"})

\* ListScreen.handleBrowsing.  The cursor-blink messages textinput.Blink
\* starts are not separate steps: one has the effect of a key press that
\* matches no binding.
handleBrowsing(m, msg) ==
    BrowsingCase(m, IF msg.type = "KeyMsg" THEN BrowsingAction(m, msg.key) ELSE "")

\* handleFiltering, CancelWhileFiltering: resetFiltering, then the two
\* bindings it sets
CancelFiltering(m) ==
    [resetFiltering(m) EXCEPT !.enabled["Filter"] = TRUE,
                              !.enabled["ClearFilter"] = FALSE]

\* handleFiltering, AcceptWhileFiltering, after hideStatusMessage
AcceptApply(m) ==
    IF Len(m.items) = 0 THEN m
    ELSE IF Len(VisibleItems(m)) = 0 THEN resetFiltering(m)
    ELSE IF m.value = <<>>
    THEN resetFiltering(updateKeybindings([m EXCEPT !.filterState = "FilterApplied"]))
    ELSE updateKeybindings([m EXCEPT !.filterState = "FilterApplied"])

\* handleFiltering, AcceptWhileFiltering
AcceptFiltering(m) == AcceptApply(hideStatusMessage(m))

\* the switch of handleFiltering on the key.  The keys that cancel or
\* accept leave the text of the input as it is, focused or blurred.
FilteringCase(m, msg) ==
    IF msg.type # "KeyMsg" THEN m
    ELSE IF Matches(m, msg.key, "CancelWhileFiltering") THEN CancelFiltering(m)
    ELSE IF Matches(m, msg.key, "AcceptWhileFiltering") THEN AcceptFiltering(m)
    ELSE m

\* handleFiltering after FilterInput.Update: a changed value dispatches
\* filterItems and sets AcceptWhileFiltering; updatePagination ends it
FilterChanged(before, m) ==
    updatePagination(
        IF before # m.value
        THEN [m EXCEPT !.out = @ \o <<filterItems(m)>>,
                       !.enabled["AcceptWhileFiltering"] = m.value # <<>>]
        ELSE m)

\* handleFiltering from FilterInput.Update on
FilterInputStep(m, msg) == FilterChanged(m.value, InputUpdate(m, msg))

\* ListScreen.handleFiltering
handleFiltering(m, msg) == FilterInputStep(FilteringCase(m, msg), msg)

\* The "enter" case of ListScreen.Update: SelectedItem points into the
\* master slice when the list is unfiltered and into a copy made by
\* filteredItems.items otherwise; a nil pointer panics.
ToggleComplete(m) ==
    LET sel == SelectedItem(m) IN
    IF sel = 0 THEN Panic(m)
    ELSE IF m.filterState = "Unfiltered"
    THEN [m EXCEPT !.items[sel].completed = ~m.items[sel].completed]
    ELSE m

\* ListScreen.setSize
setSize(m, height) == updatePagination([m EXCEPT !.height = height])

\* the handler ListScreen.Update ends with
Handle(m, msg) ==
    IF m.filterState = "Filtering" THEN handleFiltering(m, msg)
    ELSE handleBrowsing(m, msg)

\* the FilterMatchesMsg case that also leaves the filter
ApplyMatchesAndLeave(m, matches) ==
    [m EXCEPT !.filteredItems = SomeFiltered(matches),
              !.filterState = "Unfiltered"]

\* the FilterMatchesMsg case of ListScreen.Update
ApplyMatches(m, matches) ==
    [m EXCEPT !.filteredItems = SomeFiltered(matches)]

\* the switch of ListScreen.Update on the message
UpdateCase(m, msg, inPlace) ==
    CASE msg.type = "KeyMsg" /\ msg.key = "ctrl+a" ->
            [m EXCEPT !.out = @ \o <<AddTaskTrigger>>]
      [] msg.type = "KeyMsg" /\ msg.key = "ctrl+d" ->
            Then(RemoveItem(m, Cursor(m)), StoreItemsState)
      [] msg.type = "KeyMsg" /\ msg.key = "enter" ->
            Then(ToggleComplete(m), StoreItemsState)
      [] msg.type = "TaskAdded" ->
            Then(InsertItem(m, Cursor(m) + 1, msg.item, inPlace), StoreItemsState)
      [] msg.type = "WindowSizeMsg" -> setSize(m, msg.height - DocFrameHeight)
      [] msg.type = "FilterMatchesMsg" -> ApplyMatches(m, msg.matches)
      [] msg.type = "statusMessageTimeoutMsg" -> hideStatusMessage(m)
      [] OTHER -> m

\* the cases of the switch that return
Returns(msg) ==
    \/ msg.type = "KeyMsg" /\ msg.key = "ctrl+a"
    \/ msg.type \in {"TaskAdded", "FilterMatchesMsg"}

\* ListScreen.Update after the switch
UpdateTail(m, msg) ==
    IF Returns(msg) \/ m.panicked THEN m ELSE Handle(m, msg)

\* ListScreen.Update
Update(m, msg, inPlace) == UpdateTail(UpdateCase(m, msg, inPlace), msg)

\* ListScreen.populatedView: items[start:end] panics when start > end
populatedView(m) ==
    LET n == Len(VisibleItems(m))
        bounds == GetSliceBounds(m, n)
    IN  IF n > 0 /\ (bounds.start < 0 \/ bounds.start > bounds.end)
        THEN Panic(m)
        ELSE m

\* ListScreen.View
View(m) == populatedView(m)

----------------------------------------------------------------------------
\* The add-task screen and the view router.

\* addTaskScreen.Update: "enter" starts enterTask, whose message carries the
\* text of the input
AddTaskUpdate(m, msg, text) ==
    IF msg.type = "KeyMsg" /\ msg.key = "enter"
    THEN [m EXCEPT !.out = @ \o <<TaskAdded(NewItem(text))>>]
    ELSE m

\* MainView.Update: the switch that sets currentView
Route(m, msg) ==
    CASE msg.type = "AddTaskTrigger" -> [m EXCEPT !.currentView = "add"]
      [] msg.type = "TaskAdded" -> [m EXCEPT !.currentView = "list"]
      [] OTHER -> m

\* MainView.Update: the update of the current view
Forward(m, msg, inPlace, text) ==
    IF m.currentView = "list" THEN Update(m, msg, inPlace)
    ELSE AddTaskUpdate(m, msg, text)

\* MainView.Update
MainUpdate(m, msg, inPlace, text) ==
    IF msg.type = "KeyMsg" /\ msg.key \in {"q", "ctrl+c"}
    THEN [m EXCEPT !.out = @ \o <<QuitMsg>>]
    ELSE Forward(Route(m, msg), msg, inPlace, text)

\* MainView.View
MainView(m) == IF m.currentView = "list" THEN View(m) ELSE m

----------------------------------------------------------------------------
\* The program as a state machine.

\* The handlers work on the list screen together with what else they touch:
\* the storage file and the router's view, the commands they return (out,
\* ret), whether append moved the master slice (realloc) and whether they
\* panicked.
Work ==
    [items |-> screen.items, filteredItems |-> screen.filteredItems,
     filterState |-> screen.filterState, value |-> screen.value,
     page |-> screen.page, perPage |-> screen.perPage,
     totalPages |-> screen.totalPages, cursor |-> screen.cursor,
     height |-> screen.height, enabled |-> screen.enabled,
     InfiniteScrolling |-> screen.InfiniteScrolling,
     statusMessage |-> screen.statusMessage,
     statusMessageTimer |-> screen.statusMessageTimer,
     timers |-> timers,
     persisted |-> persisted, currentView |-> currentView,
     out |-> <<>>, ret |-> <<>>, panicked |-> FALSE, realloc |-> FALSE]

\* the ListScreen fields of a handler's result
ScreenOf(r) ==
    [items |-> r.items, filteredItems |-> r.filteredItems,
     filterState |-> r.filterState, value |-> r.value,
     page |-> r.page, perPage |-> r.perPage,
     totalPages |-> r.totalPages, cursor |-> r.cursor,
     height |-> r.height, enabled |-> r.enabled,
     InfiniteScrolling |-> r.InfiniteScrolling,
     statusMessage |-> r.statusMessage,
     statusMessageTimer |-> r.statusMessageTimer]

\* the stored lists the program may start from
InitLists ==
    UNION {[1..n -> {NewItem(t) : t \in Titles}] : n \in 0..MaxItems}

\* NewListScreen
NewListScreen(items, infinite) ==
    updateKeybindings(updatePagination(
        [items |-> items, filteredItems |-> NilFiltered,
         filterState |-> "Unfiltered", value |-> <<>>,
         page |-> 0, perPage |-> 1, totalPages |-> 1, cursor |-> 0,
         height |-> 0, enabled |-> [b \in Bindings |-> TRUE],
         InfiniteScrolling |-> infinite,
         statusMessage |-> 0, statusMessageTimer |-> 0]))

\* storage.json with a list of items in it
ItemFiles == {[kind |-> "items", items |-> l] : l \in InitLists}

\* storage.json missing or unreadable (os.Open or io.ReadAll fails) and
\* storage.json with content json.Unmarshal rejects: no items can be had
BrokenFiles == {[kind |-> k, items |-> <<>>] : k \in {"unreadable", "malformed"}}

\* FileItemStorage.GetItems: the items and whether an error is returned
GetItems(file) ==
    IF file.kind = "items" THEN [items |-> file.items, err |-> FALSE]
    ELSE [items |-> <<>>, err |-> TRUE]

\* getTasks with a placeholder item for a file that cannot be loaded
getTasksPlaceholder(file) ==
    IF GetItems(file).err THEN <<NewItem("A")>> ELSE GetItems(file).items

\* getTasks
getTasks(file) ==
    IF GetItems(file).err THEN <<>> ELSE GetItems(file).items

\* the state after construction from one of files
InitFrom(files, infinite) ==
    \E file \in files :
        /\ screen = NewListScreen(getTasks(file), infinite)
        /\ persisted = file.items
        /\ startup = file.kind
        /\ currentView = "list"
        /\ inflight = <<>>
        /\ status = "running"
        /\ timers = [t \in Messages |-> "none"]
        /\ waiters = [g \in Messages |-> [at |-> "none", timer |-> 0]]
        /\ ev = "init"

\* the state after construction; main leaves InfiniteScrolling at its zero
\* value, a caller of the component may switch it on
InitWith(infinite) == InitFrom(ItemFiles, infinite)

\* the state after construction when storage.json cannot be loaded
InitBroken == InitFrom(BrokenFiles, FALSE)

Init == InitWith(FALSE)

InitInfinite == InitWith(TRUE)

\* s without its i-th element
RemoveAt(s, i) == [k \in 1..(Len(s) - 1) |-> IF k < i THEN s[k] ELSE s[k + 1]]

\* What a running filterItems command sees after a handler wrote to the
\* master slice: the handler's writes land in the shared backing array
\* unless append moved the slice to a new one.
Seen(cmd, r) ==
    IF cmd.type # "filterItems" \/ ~cmd.live THEN cmd
    ELSE IF r.realloc THEN [cmd EXCEPT !.live = FALSE]
    ELSE [cmd EXCEPT !.view =
            [k \in DOMAIN cmd.view |->
                IF k <= Len(r.items) THEN r.items[k] ELSE cmd.view[k]]]

\* a turn that changed nothing and started nothing
Quiet(r, rest) ==
    /\ ScreenOf(r) = screen /\ r.persisted = persisted
    /\ r.currentView = currentView /\ r.timers = timers
    /\ ~r.panicked /\ r.out = <<>> /\ rest = inflight

\* the state after a turn with result r
Commit(r, rest, kind) ==
    /\ status = "running"
    /\ Len(rest) + Len(r.out) <= MaxInflight
    /\ r.page >= -MaxUnderflow
    /\ screen' = ScreenOf(r)
    /\ persisted' = r.persisted
    /\ currentView' = r.currentView
    /\ timers' = r.timers
    /\ UNCHANGED <<waiters, startup>>
    /\ status' = IF r.panicked THEN "panicked" ELSE "running"
    /\ inflight' = [k \in DOMAIN rest |-> Seen(rest[k], r)]
                   \o (IF r.panicked THEN <<>> ELSE r.out)
    /\ ev' = IF Quiet(r, rest) THEN ev ELSE kind

\* One turn of the event loop: Update, then View, then the returned
\* commands start.  rest is what stays in flight.
Process(msg, rest, inPlace, text, kind) ==
    Commit(Then(MainUpdate(Work, msg, inPlace, text), MainView), rest, kind)

\* TaskAdded messages on their way
PendingAdds == Cardinality({k \in DOMAIN inflight : inflight[k].type = "TaskAdded"})

\* The keys that do more on the add-task screen than edit its text, which is
\* drawn when "enter" is pressed.
AddKeys == {"enter", "q"}

\* A message in flight is taken before the next input is read; a command
\* that still computes (filterItems) may take any time.
Prompt == \A i \in DOMAIN inflight : inflight[i].type = "filterItems"

\* the user presses key k
KeyPress(k) ==
    /\ Prompt
    /\ currentView = "list" /\ screen.filterState = "Filtering"
            => k \notin {"home", "end", "/"}
    /\ currentView = "list" /\ screen.filterState = "Filtering" /\ k \in Runes
            => Len(screen.value) < MaxQuery
    /\ currentView = "add" => k \in AddKeys
    /\ currentView = "add" /\ k = "enter"
            => Len(screen.items) + PendingAdds < MaxItems
    /\ \E text \in (IF currentView = "add" /\ k = "enter" THEN Titles ELSE {"A"}) :
            Process(KeyMsg(k), inflight, TRUE, text, k)

\* the terminal reports a new size
Resize(h) == Prompt /\ Process(WindowSizeMsg(h), inflight, TRUE, "A", "WindowSizeMsg")

\* a filterItems command runs to its message
RunCommand(i) ==
    /\ status = "running"
    /\ inflight[i].type = "filterItems"
    /\ inflight' = [inflight EXCEPT ![i] = RunFilter(inflight[i])]
    /\ ev' = "filterItems"
    /\ UNCHANGED <<screen, persisted, currentView, status, timers, waiters,
                    startup>>

\* the event loop takes message i; tea.QuitMsg ends the program
Deliver(i) ==
    /\ status = "running"
    /\ inflight[i].type # "filterItems"
    /\ IF inflight[i].type = "QuitMsg"
       THEN /\ status' = "quit"
            /\ inflight' = RemoveAt(inflight, i)
            /\ ev' = "QuitMsg"
            /\ UNCHANGED <<screen, persisted, currentView, timers, waiters,
                         startup>>
       ELSE \E inPlace \in (IF inflight[i].type = "TaskAdded" THEN BOOLEAN ELSE {TRUE}) :
                Process(inflight[i], RemoveAt(inflight, i), inPlace, "A",
                        inflight[i].type)

Next ==
    \/ \E k \in Keys : KeyPress(k)
    \/ \E h \in Heights : Resize(h)
    \/ \E i \in DOMAIN inflight : RunCommand(i)
    \/ \E i \in DOMAIN inflight : Deliver(i)

Spec == Init /\ [][Next]_vars

\* the component with infinite scrolling switched on
SpecInfinite == InitInfinite /\ [][Next]_vars

\* the program started on a storage.json that cannot be loaded
SpecBroken == InitBroken /\ [][Next]_vars

----------------------------------------------------------------------------
\* The component under a host that shows status messages.

\* the number of status messages shown so far
Started == Cardinality({t \in Messages : timers[t] # "none"})

\* The host's Update calls NewStatusMessage and returns its command, which
\* starts as a goroutine.
StartStatusMessage ==
    /\ status = "running"
    /\ Started < MaxMessages
    /\ screen' = ScreenOf(NewStatusMessage(Work, Started + 1))
    /\ timers' = NewStatusMessage(Work, Started + 1).timers
    /\ waiters' = [waiters EXCEPT ![Started + 1] = [at |-> "started", timer |-> 0]]
    /\ ev' = "NewStatusMessage"
    /\ UNCHANGED <<persisted, currentView, inflight, status, startup>>

\* Goroutine g evaluates m.statusMessageTimer.C: it reads the field through
\* the pointer when it gets to run, not when the command was made, and
\* blocks on that timer's channel.
WaiterReads(g) ==
    /\ status = "running"
    /\ waiters[g].at = "started"
    /\ waiters' = [waiters EXCEPT ![g] = [at |-> "waiting",
                                          timer |-> screen.statusMessageTimer]]
    /\ ev' = "read"
    /\ UNCHANGED <<screen, persisted, currentView, inflight, status, timers,
                    startup>>

\* timer t expires: the runtime sends the time on its channel
TimerFires(t) ==
    /\ status = "running"
    /\ timers[t] = "armed"
    /\ timers' = [timers EXCEPT ![t] = "fired"]
    /\ ev' = "fired"
    /\ UNCHANGED <<screen, persisted, currentView, inflight, status, waiters,
                    startup>>

\* goroutine g receives from the channel it blocks on and returns
\* statusMessageTimeoutMsg to the event loop
WaiterReceives(g) ==
    /\ status = "running"
    /\ waiters[g].at = "waiting"
    /\ timers[waiters[g].timer] \in {"fired", "firedStopped"}
    /\ Len(inflight) < MaxInflight
    /\ timers' = [timers EXCEPT ![waiters[g].timer] = "received"]
    /\ waiters' = [waiters EXCEPT ![g].at = "done"]
    /\ inflight' = Append(inflight, statusMessageTimeoutMsg(waiters[g].timer))
    /\ ev' = "received"
    /\ UNCHANGED <<screen, persisted, currentView, status, startup>>

NextStatus ==
    \/ StartStatusMessage
    \/ \E g \in Messages : WaiterReads(g)
    \/ \E t \in Messages : TimerFires(t)
    \/ \E g \in Messages : WaiterReceives(g)
    \/ \E i \in DOMAIN inflight : Deliver(i)

SpecStatus == Init /\ [][NextStatus]_vars

----------------------------------------------------------------------------
\* The vocabulary of the properties.

\* the mode: Browsing is Unfiltered
Mode == screen.filterState

\* the list screen is shown, runs and reads the next input
Running == status = "running" /\ currentView = "list" /\ Prompt

\* the list screen after key k is handled in the current state
Press(k) == MainUpdate(Work, KeyMsg(k), TRUE, "A")

\* the list screen after the add-task screen's TaskAdded message for item it
\* is handled in the current state
Added(it) == MainUpdate(Work, TaskAdded(it), TRUE, "A")

\* s with x inserted so that it gets the 0-based position i
InsertAt(s, i, x) == Slice(s, 0, i) \o <<x>> \o Slice(s, i, Len(s))

\* the cursor selects an item and GlobalIndex names that item of the master
\* collection
SelectsMaster(m) ==
    /\ SelectedItem(m) # 0
    /\ GlobalIndex(m) \in 0..(Len(m.items) - 1)
    /\ m.items[GlobalIndex(m) + 1] = VisibleItems(m)[SelectedItem(m)]

\* the visible positions that lie on the current page
OnCurrentPage ==
    {v \in 0..(Len(VisibleItems(screen)) - 1) :
        GoDiv(v, screen.perPage) = screen.page}

\* the steps between modes the specification names
LegalModeSteps ==
    {<<"Unfiltered", "Filtering">>, <<"Filtering", "Unfiltered">>,
     <<"Filtering", "FilterApplied">>, <<"FilterApplied", "Unfiltered">>}

----------------------------------------------------------------------------
\* The properties.

\* C1 as stated: the mode starts as Browsing and changes only along
\* Browsing->Filtering, Filtering->Browsing, Filtering->FilterApplied and
\* FilterApplied->Browsing; no step takes FilterApplied to Filtering.
C1_OnlyFourModeSteps ==
    /\ Mode = "Unfiltered"
    /\ [][Mode' # Mode => <<Mode, Mode'>> \in LegalModeSteps]_vars

\* C1 amended: the mode starts as Browsing and changes only along the four
\* steps above and FilterApplied->Filtering, which the Filter key takes.
C1_ModeSteps ==
    /\ Mode = "Unfiltered"
    /\ [][Mode' # Mode =>
            \/ <<Mode, Mode'>> \in LegalModeSteps
            \/ <<Mode, Mode'>> = <<"FilterApplied", "Filtering">> /\ ev' = "/"]_vars

\* C1 witness: the Filter key was pressed while a filter was applied, and
\* the list is filtering again with the applied text in the input.
C1_Witness ==
    ev = "/" /\ Mode = "Filtering" /\ screen.value # <<>> /\ status = "running"

\* C2: after every processed event 0 <= page < totalPages and 0 <= offset <
\* the number of visible items on the current page (offset = 0 when nothing
\* is visible).
C2_CursorInBounds ==
    status = "running" =>
        /\ 0 <= screen.page /\ screen.page < screen.totalPages
        /\ IF Len(VisibleItems(screen)) = 0 THEN screen.cursor = 0
           ELSE 0 <= screen.cursor /\ screen.cursor < Cardinality(OnCurrentPage)

\* C3: for a non-empty master collection, in every filter state, selecting a
\* visible index v makes the global index the source index recorded for the
\* v-th visible entry, and the master item there is the v-th visible item.
C3_SelectGlobalIndex ==
    status = "running" /\ Len(screen.items) > 0 =>
        \A v \in 0..(Len(VisibleItems(screen)) - 1) :
            /\ GlobalIndex(Select(screen, v))
                    = (IF Mode = "Unfiltered" THEN v
                       ELSE screen.filteredItems.elems[v + 1].index)
            /\ GlobalIndex(Select(screen, v)) \in 0..(Len(screen.items) - 1)
            /\ screen.items[GlobalIndex(Select(screen, v)) + 1]
                    = VisibleItems(screen)[v + 1]

\* C4: while the mode is Filtering or FilterApplied and no filter computation
\* or result is in flight, the items of the filter view are those that
\* filtering the current master collection by the current text gives.
C4_FilterViewCurrent ==
    status = "running" /\ Mode # "Unfiltered" /\ inflight = <<>> =>
        VisibleItems(screen)
            = [k \in DOMAIN RunFilter(filterItems(screen)).matches |->
                    RunFilter(filterItems(screen)).matches[k].item]

\* C5: DeleteItem removes from the master collection exactly the item at the
\* cursor's global index, in Browsing mode and with a filter applied.
C5_DeleteSelected ==
    Running /\ Mode \in {"Unfiltered", "FilterApplied"} /\ SelectsMaster(screen) =>
        Press("ctrl+d").items = RemoveAt(screen.items, GlobalIndex(screen) + 1)

\* C6: ToggleComplete flips the completed flag of the master item at the
\* cursor's global index and changes nothing else of the master collection,
\* in Browsing mode and with a filter applied.
C6_ToggleSelected ==
    Running /\ Mode \in {"Unfiltered", "FilterApplied"} /\ SelectsMaster(screen) =>
        Press("enter").items
            = [screen.items EXCEPT ![GlobalIndex(screen) + 1].completed = ~@]

\* C7: with the cursor at global index i of n items, MoveItemDown with
\* i < n-1 swaps master[i] and master[i+1] and leaves the cursor at i+1, and
\* MoveItemUp with i > 0 swaps master[i] and master[i-1] and leaves the
\* cursor at i-1, on every page.
C7_MoveFollows ==
    Running /\ Mode = "Unfiltered" /\ SelectsMaster(screen) =>
        /\ Index(screen) < Len(screen.items) - 1 =>
                /\ Press("shift+down").items
                        = Swap(screen.items, Index(screen), Index(screen) + 1)
                /\ Index(Press("shift+down")) = Index(screen) + 1
        /\ Index(screen) > 0 =>
                /\ Press("shift+up").items
                        = Swap(screen.items, Index(screen), Index(screen) - 1)
                /\ Index(Press("shift+up")) = Index(screen) - 1

\* C8: MoveItemUp on the first item and MoveItemDown on the last item leave
\* the master collection and the cursor as they are.
C8_MoveAtBoundary ==
    Running /\ Mode = "Unfiltered" /\ SelectsMaster(screen) =>
        /\ Index(screen) = 0 =>
                /\ Press("shift+up").items = screen.items
                /\ Press("shift+up").page = screen.page
                /\ Press("shift+up").cursor = screen.cursor
        /\ Index(screen) = Len(screen.items) - 1 =>
                /\ Press("shift+down").items = screen.items
                /\ Press("shift+down").page = screen.page
                /\ Press("shift+down").cursor = screen.cursor

\* C9: an item-created event inserts the new item right after the selected
\* item, at the cursor's global index + 1 (at 0 in an empty list), on every
\* page, and the items already there keep their order.
C9_InsertAfterSelected ==
    /\ status = "running" /\ currentView = "add" /\ inflight = <<>>
    /\ Mode = "Unfiltered"
    /\ Len(screen.items) = 0 \/ SelectsMaster(screen)
    => \A t \in Titles :
            Added(NewItem(t)).items
                = InsertAt(screen.items,
                           IF Len(screen.items) = 0 THEN 0
                           ELSE GlobalIndex(screen) + 1,
                           NewItem(t))

\* C10: every event that changes the master collection while the mode is
\* Filtering or FilterApplied dispatches a filter computation against the
\* new master collection.
C10_MutationRefilters ==
    Running /\ Mode # "Unfiltered" =>
        \A k \in {"ctrl+d", "shift+up", "shift+down", "enter"} :
            Press(k).items # screen.items =>
                \E i \in DOMAIN Press(k).out :
                    /\ Press(k).out[i].type = "filterItems"
                    /\ Press(k).out[i].view = Press(k).items

\* C11: Accept while Filtering ends in FilterApplied with the filter view
\* kept when the visible set is non-empty, and in Browsing with the filter
\* discarded when it is empty; there is no other outcome.
C11_AcceptOutcome ==
    Running /\ Mode = "Filtering" =>
        \A k \in KeysOf("AcceptWhileFiltering") :
            Matches(screen, k, "AcceptWhileFiltering") =>
                /\ ~Press(k).panicked
                /\ IF Len(VisibleItems(screen)) > 0
                   THEN /\ Press(k).filterState = "FilterApplied"
                        /\ Press(k).filteredItems = screen.filteredItems
                   ELSE /\ Press(k).filterState = "Unfiltered"
                        /\ Press(k).filteredItems = NilFiltered
                        /\ Press(k).value = <<>>

\* C12: right after Cancel (from Filtering) or Clear (from FilterApplied)
\* the mode is Browsing, the query text is empty, the filter view is absent
\* and the visible items are the master collection in its order.
C12_DiscardFilter ==
    Running /\ Mode # "Unfiltered" =>
        /\ Press("esc").filterState = "Unfiltered"
        /\ Press("esc").value = <<>>
        /\ Press("esc").filteredItems = NilFiltered
        /\ Press("esc").items = screen.items
        /\ VisibleItems(Press("esc")) = screen.items

\* C12 witness: escape was pressed with a filter open or applied and the
\* list browses all of a non-empty master collection again.
C12_Witness ==
    /\ ev = "esc" /\ status = "running" /\ inflight = <<>>
    /\ Mode = "Unfiltered" /\ screen.filteredItems = NilFiltered
    /\ screen.value = <<>> /\ Len(screen.items) > 0

\* C13: whenever the mode is Browsing the visible items are the master
\* collection and the cursor's global index is its linear index
\* page*pageSize+offset, also after a late filter result was delivered.
C13_BrowsingIgnoresView ==
    status = "running" /\ Mode = "Unfiltered" =>
        /\ VisibleItems(screen) = screen.items
        /\ GlobalIndex(screen) = Index(screen)

\* ceil(n / d) for n >= 0, d >= 1
Ceil(n, d) == (n + d - 1) \div d

\* C14: after every processed event that changes the number of visible
\* items or the page size, totalPages = max(1, ceil(visible / pageSize)).
C14_TotalPagesRecomputed ==
    [][(/\ status' = "running"
        /\ \/ Len(VisibleItems(screen')) # Len(VisibleItems(screen))
           \/ screen'.perPage # screen.perPage)
       => screen'.totalPages
            = max(1, Ceil(Len(VisibleItems(screen')), screen'.perPage))]_vars

\* C17: CursorDown with the cursor on the last visible item leaves it there
\* when infinite scrolling is off and takes it to page 0, offset 0 when
\* infinite scrolling is on.
C17_CursorDownAtEnd ==
    /\ Running /\ Mode # "Filtering"
    /\ Len(VisibleItems(screen)) > 0
    /\ Index(screen) = Len(VisibleItems(screen)) - 1
    /\ 0 <= screen.cursor
    => IF screen.InfiniteScrolling
       THEN Press("down").page = 0 /\ Press("down").cursor = 0
       ELSE Press("down").page = screen.page
            /\ Press("down").cursor = screen.cursor

\* C18: after every processed event that changes the content or the order
\* of the master collection, the persisted sequence is the master
\* collection (every save of the model succeeds).
C18_SavedAfterMutation ==
    [][status' = "running" /\ screen'.items # screen.items
       => persisted' = screen'.items]_vars

\* the enabled flags updateKeybindings derives for a list screen that is
\* not filtering
DerivedEnabled(m, b) ==
    CASE b \in {"CursorUp", "CursorDown", "GoToStart", "GoToEnd"}
            -> Len(m.items) > 0
      [] b \in {"PrevPage", "NextPage"} -> m.totalPages > 1
      [] b = "Filter" -> filteringEnabled /\ Len(m.items) > 0
      [] b = "ClearFilter" -> m.filterState = "FilterApplied"

\* C20: after every processed event with the mode not Filtering, the
\* cursor and page bindings, Filter and ClearFilter are enabled exactly when
\* the item count, the page count and the mode say so.
C20_BindingsCurrent ==
    status = "running" /\ Mode # "Filtering" =>
        \A b \in {"CursorUp", "CursorDown", "GoToStart", "GoToEnd",
                  "PrevPage", "NextPage", "Filter", "ClearFilter"} :
            screen.enabled[b] = DerivedEnabled(screen, b)

\* C16: CursorUp with the cursor at page 0, offset 0 leaves it there when
\* infinite scrolling is off, and takes it to the last visible item (last
\* page, last valid offset >= 0) when infinite scrolling is on.
C16_CursorUpAtStart ==
    /\ Running /\ Mode # "Filtering"
    /\ Matches(screen, "up", "CursorUp")
    /\ Len(VisibleItems(screen)) > 0
    /\ screen.page = 0 /\ screen.cursor = 0
    => IF screen.InfiniteScrolling
       THEN /\ Press("up").cursor >= 0
            /\ Press("up").page
                    = Ceil(Len(VisibleItems(screen)), screen.perPage) - 1
            /\ Index(Press("up")) = Len(VisibleItems(screen)) - 1
       ELSE Press("up").page = 0 /\ Press("up").cursor = 0

\* viewport heights and delegate heights and spacings a host may set
ViewportHeights == 0..13

ItemHeights == 1..2

ItemSpacings == 0..1

\* C15: in every reachable state pageSize >= 1 and totalPages >= 1, and they
\* stay so for every viewport height (0 and heights below the bars
\* included) and every per-item height >= 1, also with nothing visible.
C15_PagesPositive ==
    /\ screen.perPage >= 1
    /\ screen.totalPages >= 1
    /\ \A h \in ViewportHeights, ih \in ItemHeights, sp \in ItemSpacings :
            /\ PerPageFor(h - ChromeHeight, ih, sp) >= 1
            /\ SetPages([screen EXCEPT !.perPage =
                            PerPageFor(h - ChromeHeight, ih, sp)]).totalPages >= 1

\* C15 witness: a resize left the list lower than its bars, with nothing
\* visible, on one page of size one.
C15_Witness ==
    /\ ev = "WindowSizeMsg" /\ status = "running"
    /\ screen.height < ChromeHeight
    /\ Len(VisibleItems(screen)) = 0
    /\ screen.perPage = 1 /\ screen.totalPages = 1

\* an expiry that can still clear the status message: a timer that runs or
\* whose time waits in its channel, or a timeout message under way
PendingExpiries ==
    Cardinality({t \in Messages : timers[t] \in {"armed", "fired"}})
    + Cardinality({i \in DOMAIN inflight :
                        inflight[i].type = "statusMessageTimeoutMsg"})

\* C19: a status message is cleared by an expiry only when the expiry is
\* that of the timer armed for it, and while a message is shown at most one
\* expiry is pending.
C19_OwnExpiryOnly ==
    /\ [](screen.statusMessage # 0 => PendingExpiries <= 1)
    /\ [][screen.statusMessage # 0 /\ screen'.statusMessage = 0
            /\ ev' = "statusMessageTimeoutMsg"
          => \E i \in DOMAIN inflight :
                /\ inflight[i] = statusMessageTimeoutMsg(screen.statusMessage)
                /\ inflight' = RemoveAt(inflight, i)]_vars

\* the indices insert and remove are called with
Indices == -1..(MaxItems + 1)

\* C21: insert(index, item) on n items puts the item at position index when
\* 0 <= index <= n and at position n when index > n; the n items keep their
\* order and the length becomes n+1.
C21_InsertClamps ==
    status = "running" =>
        \A index \in {i \in Indices : i >= 0}, t \in Titles :
            /\ ~InsertItem(Work, index, NewItem(t), TRUE).panicked
            /\ InsertItem(Work, index, NewItem(t), TRUE).items
                    = InsertAt(screen.items, min(index, Len(screen.items)),
                               NewItem(t))

\* C22: remove(index) leaves the master collection as it is when index < 0
\* or index >= length; otherwise it removes that item, keeps the others in
\* order, and totalPages and the cursor are derived anew.
C22_RemoveInBounds ==
    status = "running" =>
        \A index \in Indices :
            /\ ~RemoveItem(Work, index).panicked
            /\ RemoveItem(Work, index).items
                    = (IF index \in 0..(Len(screen.items) - 1)
                       THEN RemoveAt(screen.items, index + 1)
                       ELSE screen.items)
            /\ RemoveItem(Work, index).totalPages
                    = max(1, Ceil(Len(VisibleItems(RemoveItem(Work, index))),
                                  screen.perPage))

\* the ClearFilter case of handleBrowsing
ClearFilter(m) == BrowsingCase(m, "ClearFilter")

C26_EnterFiltering ==
    Running /\ Mode = "Unfiltered" /\ Matches(screen, "/", "Filter") =>
        /\ screen.value = <<>>
        /\ Press("/").filterState = "Filtering"
        /\ Press("/").page = 0 /\ Press("/").cursor = 0
        /\ VisibleItems(Press("/")) = screen.items

\* C26 witness: the Filter key was pressed on a list of two items; the list
\* filters with an empty query and shows both items from the top.
C26_Witness ==
    /\ ev = "/" /\ status = "running" /\ Mode = "Filtering"
    /\ screen.value = <<>> /\ Len(screen.items) = 2
    /\ VisibleItems(screen) = screen.items
    /\ screen.page = 0 /\ screen.cursor = 0

\* C27: with the cursor on the visible item at linear index i of n,
\* CursorDown with i < n-1 takes it to linear index i+1 and CursorUp with
\* i > 0 to linear index i-1, to offset 0 of the next page or the last
\* offset of the previous page at a page edge.
C27_CursorSteps ==
    /\ Running /\ Mode # "Filtering"
    /\ SelectedItem(screen) # 0
    /\ screen.cursor \in 0..(screen.perPage - 1)
    => /\ Index(screen) < Len(VisibleItems(screen)) - 1 =>
            /\ Index(Press("down")) = Index(screen) + 1
            /\ Press("down").cursor \in 0..(screen.perPage - 1)
       /\ Index(screen) > 0 =>
            /\ Index(Press("up")) = Index(screen) - 1
            /\ Press("up").cursor \in 0..(screen.perPage - 1)

\* C28: a pagination recompute keeps the cursor's linear index whenever the
\* page derived from it is at most totalPages-1, and puts the page at
\* totalPages-1 otherwise.
C28_RecomputeKeepsIndex ==
    status = "running" =>
        \A h \in Heights :
            IF GoDiv(Index(screen), setSize(Work, h - DocFrameHeight).perPage)
                    <= setSize(Work, h - DocFrameHeight).totalPages - 1
            THEN Index(setSize(Work, h - DocFrameHeight)) = Index(screen)
            ELSE setSize(Work, h - DocFrameHeight).page
                    = setSize(Work, h - DocFrameHeight).totalPages - 1

\* C28 witness: a resize doubled the page size with the cursor on the
\* second item, which is now at page 0, offset 1.
C28_Witness ==
    /\ ev = "WindowSizeMsg" /\ status = "running"
    /\ screen.perPage = 2 /\ screen.page = 0 /\ screen.cursor = 1
    /\ Len(VisibleItems(screen)) = 2

\* C30: whenever the mode is FilterApplied the visible set is non-empty,
\* also when a result dispatched before the Accept arrives after it.
C30_AppliedNonEmpty ==
    status = "running" /\ Mode = "FilterApplied" =>
        Len(VisibleItems(screen)) > 0

\* key k handled by a list screen m
PressOn(m, k) == MainUpdate(m, KeyMsg(k), TRUE, "A")

\* the list screen after the result of command cmd is delivered
Delivered(cmd) == MainUpdate(Work, RunFilter(cmd), TRUE, "A")

\* the 0-based positions of the items of view whose filter key matches term
MatchingIndices(term, view) ==
    {j \in 0..(Len(view) - 1) : FuzzyMatch(term, FilterValue(view[j + 1]))}

\* what command cmd returns is the matching items of the master collection
\* it read, each with its index there
ReturnsMatches(cmd) ==
    /\ \A k \in DOMAIN RunFilter(cmd).matches :
            /\ RunFilter(cmd).matches[k].index
                    \in MatchingIndices(cmd.value, cmd.view)
            /\ RunFilter(cmd).matches[k].item
                    = cmd.view[RunFilter(cmd).matches[k].index + 1]
    /\ Len(RunFilter(cmd).matches)
            = Cardinality(MatchingIndices(cmd.value, cmd.view))
    /\ \A k \in 2..Len(RunFilter(cmd).matches) :
            RunFilter(cmd).matches[k - 1].index < RunFilter(cmd).matches[k].index

\* C25: for a non-empty query a filter computation returns only the
\* matching items, each with its index in the master collection it ran
\* against; once its (non-empty) result is delivered and Accept is applied,
\* the mode is FilterApplied and the visible items are the matched items.
C25_FilterThenAccept ==
    Running /\ Mode = "Filtering" =>
        \A i \in DOMAIN inflight :
            inflight[i].type = "filterItems" /\ inflight[i].value # <<>> =>
                /\ ReturnsMatches(inflight[i])
                /\ \A k \in KeysOf("AcceptWhileFiltering") :
                        /\ Len(RunFilter(inflight[i]).matches) > 0
                        /\ Matches(screen, k, "AcceptWhileFiltering")
                        => /\ PressOn(Delivered(inflight[i]), k).filterState
                                    = "FilterApplied"
                           /\ VisibleItems(PressOn(Delivered(inflight[i]), k))
                                    = [j \in DOMAIN RunFilter(inflight[i]).matches |->
                                            RunFilter(inflight[i]).matches[j].item]

\* C29: a running filter computation changes no list state, and the
\* delivery of its result changes the filter view only: not the mode, the
\* master collection, the query text or the persisted items.
C29_FilterFrame ==
    [][/\ ev' = "filterItems" =>
            UNCHANGED <<screen, persisted, currentView, status>>
       /\ ev' = "FilterMatchesMsg" =>
            /\ \A f \in DOMAIN screen \ {"filteredItems"} : screen'[f] = screen[f]
            /\ persisted' = persisted]_vars

\* C29 witness: a filter result was delivered while filtering and the view
\* shows fewer items than the master collection holds.
C29_Witness ==
    /\ ev = "FilterMatchesMsg" /\ status = "running" /\ Mode = "Filtering"
    /\ screen.value # <<>>
    /\ Len(VisibleItems(screen)) < Len(screen.items)

\* C24: when loading the persisted items fails at startup (file unreadable
\* or content malformed) the program runs and the list starts in Browsing
\* mode with no items, totalPages 1 and the cursor at page 0, offset 0.
C24_LoadFailureStartsEmpty ==
    ev = "init" /\ startup \in {"unreadable", "malformed"} =>
        /\ status = "running" /\ currentView = "list"
        /\ screen.items = <<>>
        /\ Mode = "Unfiltered"
        /\ screen.totalPages = 1
        /\ screen.page = 0 /\ screen.cursor = 0

\* C24 witness: the program has just started on a storage.json whose
\* content is malformed and shows an empty list.
C24_Witness ==
    /\ ev = "init" /\ startup = "malformed"
    /\ status = "running" /\ VisibleItems(screen) = <<>>

----------------------------------------------------------------------------
\* Rendering, toggling on nothing, moves and the 'q' key.

\* A longer list watched while it is filtered and paged through: stored
\* lists of MaxLong items, the keys that filter and move between pages.
MaxLong == 3

LongFiles ==
    {[kind |-> "items", items |-> l] :
        l \in [1..MaxLong -> {NewItem(t) : t \in Titles}]}

InitLong == InitFrom(LongFiles, FALSE)

PagingKeys == {"/", "a", "enter", "esc", "down", "pgdown", "home", "end"}

NextLong ==
    \/ \E k \in PagingKeys : KeyPress(k)
    \/ \E i \in DOMAIN inflight : RunCommand(i)
    \/ \E i \in DOMAIN inflight : Deliver(i)

SpecLong == InitLong /\ [][NextLong]_vars

\* the slice items[start:end] populatedView takes is inside the visible
\* items
SliceWellFormed(m) ==
    /\ GetSliceBounds(m, Len(VisibleItems(m))).start >= 0
    /\ GetSliceBounds(m, Len(VisibleItems(m))).start
            <= GetSliceBounds(m, Len(VisibleItems(m))).end

\* C31: in every reachable state with a non-empty visible set the page
\* slice used for rendering is well-formed, page*perPage <=
\* min((page+1)*perPage, number of visible items), so that rendering the
\* body never indexes outside the visible items.
C31_PageSliceWellFormed ==
    Len(VisibleItems(screen)) > 0 => SliceWellFormed(screen)

\* C32: the ToggleComplete (enter) event in a state with no selected item,
\* the visible set being empty, leaves the list state and the stored items
\* unchanged and does not fail.
C32_ToggleOnNothing ==
    Running /\ currentView = "list" /\ VisibleItems(screen) = <<>> =>
        /\ ~Press("enter").panicked
        /\ Press("enter").items = screen.items
        /\ Press("enter").persisted = persisted
        /\ Press("enter").page = screen.page
        /\ Press("enter").cursor = screen.cursor

\* the keys of MoveItemUp and MoveItemDown
MoveKeys == KeysOf("MoveItemUp") \cup KeysOf("MoveItemDown")

\* how often x occurs in s
Count(s, x) == Cardinality({k \in DOMAIN s : s[k] = x})

\* s and t hold the same items the same number of times
SameItems(s, t) ==
    /\ Len(s) = Len(t)
    /\ \A k \in DOMAIN s : Count(s, s[k]) = Count(t, s[k])

\* C33: MoveItemUp and MoveItemDown never change the length or the multiset
\* of items of the master collection: from any reachable cursor position and
\* page, after one move event and after any two in a row the master
\* collection is a permutation of what it was, and the event does not fail.
C33_MovesPermute ==
    Running =>
        \A k1 \in MoveKeys :
            /\ ~Press(k1).panicked
            /\ SameItems(Press(k1).items, screen.items)
            /\ \A k2 \in MoveKeys :
                    /\ ~PressOn(Press(k1), k2).panicked
                    /\ SameItems(PressOn(Press(k1), k2).items, screen.items)

\* C33 witness: a move event has just exchanged two different items; the
\* stored list, which a move does not rewrite, still has the old order.
C33_Witness ==
    /\ status = "running" /\ ev \in MoveKeys
    /\ Len(screen.items) = MaxItems
    /\ screen.items # persisted
    /\ SameItems(screen.items, persisted)

\* C34: while the list is in Filtering mode (where the Quit binding is
\* disabled) or the add-task screen is active, a "q" keystroke routed
\* through the top-level view does not quit the program.
C34_QNotQuitWhileTyping ==
    /\ status = "running" /\ Prompt
    /\ currentView = "add" \/ (currentView = "list" /\ Mode = "Filtering")
    => \A k \in DOMAIN Press("q").out : Press("q").out[k] # QuitMsg

====
